---- MODULE Spec2Model ----
(***************************************************************************)
(* Model of the tokio-xmpp client driver (async_client.rs): the Client     *)
(* state machine behind Stream::poll_next and Sink<Packet>, the connect    *)
(* task it spawns, and the stream it owns once connected.                  *)
(***************************************************************************)
EXTENDS Integers, Naturals, Sequences, FiniteSets, TLC

\* ------------------------------------------------------------------ bounds
\* Number of connect tasks spawned in one behaviour (the initial one included).
MaxTasks == 2
\* Packets the connected stream holds unread.
MaxInbox == 2
\* Packets handed to the connected stream's sink.
MaxOutbox == 2
\* Payload elements of a Presence that is serialised.
MaxPayloads == 2
\* Children of a <presence/> element that is parsed.
MaxChildren == 3

\* ------------------------------------------------------------------ values
\* Login JIDs given at construction: one with a node part, one without.
LoginJids == {"user@example.org", "example.org"}
\* node_str() of a login JID: "" stands for None.
NodeOf(jid) == IF jid = "user@example.org" THEN "user" ELSE ""
\* The Configs given at construction (lines 53-60): a jid with a node part,
\* its password and ServerConfig::UseSrv, or a bare domain, another password
\* and ServerConfig::Manual.
Configs ==
    {c \in [jid : LoginJids, password : {"pw1", "pw2"}, server : {"UseSrv", "Manual"}] :
        /\ (NodeOf(c.jid) = "") = (c.server = "Manual")
        /\ (c.password = "pw2") = (c.server = "Manual")}
\* JIDs the server may bind the session to: the login JID with a resource.
BoundJids == {"user@example.org/r1"}
\* Stanza elements.
Stanzas == {"s1", "s2"}
\* Errors the connected stream may report on read or write.
StreamErrors == {"Io"}

\* The phases of the connect task, in program order.
Phases == <<"unwrap", "tcp", "open1", "features", "starttls", "open2", "auth", "open3", "bind">>
\* The error with which each `?` of connect may leave the task.
PhaseError(ph) ==
    CASE ph = "tcp" -> "Dns"
      [] ph = "open1" -> "Io"
      [] ph = "features" -> "NoTls"
      [] ph = "starttls" -> "Tls"
      [] ph = "open2" -> "Io"
      [] ph = "auth" -> "NotAuthorized"
      [] ph = "open3" -> "Io"
      [] ph = "bind" -> "BindError"
      [] OTHER -> "none"

NoTask ==
    [id |-> 0, server |-> "", jid |-> "", password |-> "", phase |-> 0, tls |-> "",
     res |-> "none", val |-> ""]
NoStream == [jid |-> "", inbox |-> <<>>, outbox |-> <<>>]
NoCall == [op |-> "new", kind |-> "none", val |-> "", resumed |-> FALSE]
\* No pure function is being applied.
NoPure == [fn |-> "none", arg |-> <<>>, done |-> FALSE, out |-> <<>>]

VARIABLES
    config,     \* Client.config: jid, password and server
    state,      \* Client.state: "Invalid" | "Disconnected" | "Connecting" | "Connected"
    reconnect,  \* Client.reconnect
    task,       \* the connect task behind the JoinHandle of Connecting
    stream,     \* the XMPPStream of Connected
    pollPc,     \* position of a poll_next call: "idle" | "recurse" (before line 209's call)
    ret,        \* what the last completed call on the client returned
    calls,      \* parity of the number of completed calls on the client
    spawned,    \* connect tasks spawned so far
    elapsed,    \* whether a whole second has passed since the last spawn
    reads,      \* the packets the last completed call read from the stream
    dropped,    \* whether the Client has been dropped
    online,     \* bound_jid of the last Online event if no Disconnected event followed it, else ""
    ready,      \* the sink's poll_ready in the last completed call, if that was a poll_next
                \* that made it: "Err" (line 239), "PendingOrReady" (lines 237-238), else ""
    pure        \* the application of a pure function: its name, argument and result

vars ==
    <<config, state, reconnect, task, stream, pollPc, ret, calls, spawned, elapsed, reads,
      dropped, online, ready, pure>>

Ret(op, kind, val) == [op |-> op, kind |-> kind, val |-> val, resumed |-> FALSE]

\* Mutant of SpawnConnect: a reconnect attempt is started without the password.
SpawnConnect_NoPassword(id) ==
    [id |-> id, server |-> config.server, jid |-> config.jid, password |-> "",
     phase |-> 1, tls |-> "", res |-> "pending", val |-> ""]

\* tokio::spawn(Self::connect(server.clone(), jid.clone(), password.clone()))
SpawnConnect(id) ==
    [id |-> id, server |-> config.server, jid |-> config.jid, password |-> config.password,
     phase |-> 1, tls |-> "", res |-> "pending", val |-> ""]

\* Mutant of Init: the constructor spawns nothing and leaves the client
\* Disconnected until it is polled.
Init_NoSpawn ==
    /\ config \in Configs
    /\ task = NoTask
    /\ state = "Disconnected"
    /\ reconnect = FALSE
    /\ stream = NoStream
    /\ pollPc = "idle"
    /\ ret = NoCall
    /\ calls = 0
    /\ spawned = 0
    /\ elapsed = FALSE
    /\ reads = <<>>
    /\ dropped = FALSE
    /\ online = ""
    /\ ready = ""
    /\ pure = NoPure

\* Client::new_with_config
Init ==
    /\ config \in Configs
    /\ task = [id |-> 1, server |-> config.server, jid |-> config.jid,
               password |-> config.password, phase |-> 1, tls |-> "", res |-> "pending",
               val |-> ""]
    /\ state = "Connecting"
    /\ reconnect = FALSE
    /\ stream = NoStream
    /\ pollPc = "idle"
    /\ ret = NoCall
    /\ calls = 0
    /\ spawned = 1
    /\ elapsed = FALSE
    /\ reads = <<>>
    /\ dropped = FALSE
    /\ online = ""
    /\ ready = ""
    /\ pure = NoPure


\* ------------------------------------------------------------ connect task
\* The task runs on the runtime while the client holds its JoinHandle.
Running == state = "Connecting" /\ task.res = "pending"
PhaseName == Phases[task.phase]

\* Mutant of NextPhase: the stream is not opened again after STARTTLS and
\* after SASL; the task goes straight to the phase behind the re-open.
NextPhase_SkipsReopen(ph) == IF Phases[ph] \in {"starttls", "auth"} THEN ph + 2 ELSE ph + 1

\* The statements of connect run in program order: the phase behind ph.
NextPhase(ph) == ph + 1

\* Mutant of CanStartTls: the features are not looked at, TLS is taken as offered.
CanStartTls_Unchecked == TRUE

\* line 128: xmpp_stream.stream_features.can_starttls(), on the features the
\* server sent when the stream was first opened.
CanStartTls == task.tls = "yes"

\* line 112: jid.node_str().unwrap() panics on a JID without a node part;
\* the runtime turns the panic into a JoinError.
ConnectUnwrap ==
    /\ Running /\ PhaseName = "unwrap"
    /\ task' = IF NodeOf(task.jid) = ""
               THEN [task EXCEPT !.res = "panicked", !.val = "JoinError"]
               ELSE [task EXCEPT !.phase = NextPhase(@)]
    /\ UNCHANGED <<config, dropped, pure, online, ready, state, reconnect, stream, pollPc, ret, calls, spawned, elapsed, reads>>

\* An awaited phase (tcp, open1, starttls, open2, auth, open3) succeeds, or the
\* features advertise STARTTLS (line 128): the task goes on to the next phase.
\* The first stream open (lines 124-126) brings the server's features, which
\* advertise STARTTLS or do not.
ConnectPhaseOk ==
    /\ Running /\ PhaseName \notin {"unwrap", "bind"}
    /\ PhaseName = "features" => CanStartTls
    /\ \E offered \in {"yes", "no"} :
        task' = [task EXCEPT !.phase = NextPhase(@),
                             !.tls = IF PhaseName = "open1" THEN offered ELSE @]
    /\ UNCHANGED <<config, dropped, pure, online, ready, state, reconnect, stream, pollPc, ret, calls, spawned, elapsed, reads>>

\* An awaited phase fails and `?` returns its error (for "features": line 135,
\* Err(NoTls) when can_starttls() is false): no later phase runs.
ConnectPhaseErr ==
    /\ Running /\ PhaseName # "unwrap"
    /\ PhaseName = "features" => ~CanStartTls
    /\ task' = [task EXCEPT !.res = "err", !.val = PhaseError(PhaseName)]
    /\ UNCHANGED <<config, dropped, pure, online, ready, state, reconnect, stream, pollPc, ret, calls, spawned, elapsed, reads>>

\* lines 149-150: bind succeeds; the task returns Ok(stream), the stream
\* carrying the jid the server bound.
ConnectBindOk ==
    /\ Running /\ PhaseName = "bind"
    /\ \E j \in BoundJids : task' = [task EXCEPT !.res = "ok", !.val = j]
    /\ UNCHANGED <<config, dropped, pure, online, ready, state, reconnect, stream, pollPc, ret, calls, spawned, elapsed, reads>>

\* ------------------------------------------------------------- environment
Terminal(item) == item.kind \in {"StreamStart", "StreamEnd", "Eof", "Err"}
InboxItems ==
    [kind : {"Stanza"}, val : Stanzas]
        \cup [kind : {"Text", "StreamStart", "StreamEnd", "Eof"}, val : {""}]
        \cup [kind : {"Err"}, val : StreamErrors]

\* The connected stream decodes one more item from the peer. Nothing is decoded
\* behind an item on which the driver drops the stream (StreamStart, StreamEnd,
\* EOF, an error): no poll could read it.
Deliver ==
    /\ state = "Connected" /\ ~dropped
    /\ Len(stream.inbox) < MaxInbox
    /\ IF stream.inbox = <<>> THEN TRUE ELSE ~Terminal(stream.inbox[Len(stream.inbox)])
    /\ \E item \in InboxItems : stream' = [stream EXCEPT !.inbox = Append(@, item)]
    /\ UNCHANGED <<config, dropped, pure, online, ready, state, reconnect, task, pollPc, ret, calls, spawned, elapsed, reads>>

\* One second passes.
Tick ==
    /\ ~elapsed
    /\ elapsed' = TRUE
    /\ UNCHANGED <<config, dropped, pure, online, ready, state, reconnect, task, stream, pollPc, ret, calls, spawned, reads>>

\* ---------------------------------------------------------------- poll_next
\* A panic unwinds out of poll_next and ends the use of the client: no further
\* call is made on it. None is made on a client that has been dropped.
Alive == ret.kind # "Panic" /\ ~dropped

\* line 197: replace(&mut self.state, ClientState::Invalid) leaves this value
\* in self.state until a branch assigns another.
Taken == "Invalid"

\* A call of poll_next returns r. An Online event is remembered with its
\* bound_jid until a Disconnected event is returned.
Returns(r) ==
    /\ ret' = r /\ calls' = 1 - calls /\ pollPc' = "idle"
    /\ online' = CASE r.kind = "Online" -> r.val
                   [] r.kind = "Disconnected" -> ""
                   [] OTHER -> online

\* line 200
PollInvalid ==
    /\ Alive
    /\ state = "Invalid"
    /\ state' = Taken
    /\ Returns(Ret("poll_next", "Panic", "Invalid client state"))
    /\ reads' = <<>>
    /\ ready' = ""
    /\ UNCHANGED <<config, dropped, pure, reconnect, task, stream, spawned, elapsed>>

\* Mutant of PollDisconnectedReconnect: the poll returns Pending right after
\* the spawn instead of polling the new task.
PollDisconnectedReconnect_ReturnsPending ==
    /\ Alive
    /\ state = "Disconnected" /\ reconnect
    /\ spawned < MaxTasks
    /\ task' = SpawnConnect(spawned + 1)
    /\ spawned' = spawned + 1
    /\ elapsed' = FALSE
    /\ state' = "Connecting"
    /\ reads' = <<>>
    /\ ready' = ""
    /\ Returns(Ret("poll_next", "Pending", ""))
    /\ UNCHANGED <<config, dropped, pure, reconnect, stream>>

\* Mutant of PollDisconnectedReconnect: the reconnect flag is ignored and the
\* event stream ends.
PollDisconnectedReconnect_EndsStream ==
    /\ Alive
    /\ state = "Disconnected" /\ reconnect
    /\ spawned < MaxTasks
    /\ state' = "Disconnected"
    /\ Returns(Ret("poll_next", "None", ""))
    /\ reads' = <<>>
    /\ ready' = ""
    /\ UNCHANGED <<config, dropped, pure, reconnect, task, stream, spawned, elapsed>>

\* lines 201-208: spawn a connect task, enter Connecting; line 209's
\* recursive call is the next step of this poll.
PollDisconnectedReconnect ==
    /\ Alive
    /\ state = "Disconnected" /\ reconnect
    /\ spawned < MaxTasks
    /\ task' = SpawnConnect(spawned + 1)
    /\ spawned' = spawned + 1
    /\ elapsed' = FALSE
    /\ state' = "Connecting"
    /\ pollPc' = "recurse"
    /\ UNCHANGED <<config, dropped, pure, online, ready, reconnect, stream, ret, calls, reads>>

\* line 211
PollDisconnected ==
    /\ Alive
    /\ state = "Disconnected" /\ ~reconnect
    /\ state' = Taken
    /\ Returns(Ret("poll_next", "None", ""))
    /\ reads' = <<>>
    /\ ready' = ""
    /\ UNCHANGED <<config, dropped, pure, reconnect, task, stream, spawned, elapsed>>

\* Mutant of PollConnectingOk: Online carries the login jid of the config
\* instead of the jid bound to the stream.
PollConnectingOk_LoginJid ==
    /\ Alive
    /\ state = "Connecting" /\ task.res = "ok"
    /\ stream' = [jid |-> task.val, inbox |-> <<>>, outbox |-> <<>>]
    /\ state' = "Connected"
    /\ task' = NoTask
    /\ Returns([op |-> "poll_next", kind |-> "Online", val |-> config.jid, resumed |-> FALSE])
    /\ reads' = <<>>
    /\ ready' = ""
    /\ UNCHANGED <<config, dropped, pure, reconnect, spawned, elapsed>>

\* lines 213-220
PollConnectingOk ==
    /\ Alive
    /\ state = "Connecting" /\ task.res = "ok"
    /\ stream' = [jid |-> task.val, inbox |-> <<>>, outbox |-> <<>>]
    /\ state' = "Connected"
    /\ task' = NoTask
    /\ Returns([op |-> "poll_next", kind |-> "Online", val |-> task.val, resumed |-> FALSE])
    /\ reads' = <<>>
    /\ ready' = ""
    /\ UNCHANGED <<config, dropped, pure, reconnect, spawned, elapsed>>

\* Mutant of PollConnectingErr: the task's error is replaced by the generic
\* Error::Disconnected.
PollConnectingErr_GenericError ==
    /\ Alive
    /\ state = "Connecting" /\ task.res = "err"
    /\ state' = "Disconnected"
    /\ task' = NoTask
    /\ Returns(Ret("poll_next", "Disconnected", "Disconnected"))
    /\ reads' = <<>>
    /\ ready' = ""
    /\ UNCHANGED <<config, dropped, pure, reconnect, stream, spawned, elapsed>>

\* lines 221-224
PollConnectingErr ==
    /\ Alive
    /\ state = "Connecting" /\ task.res = "err"
    /\ state' = "Disconnected"
    /\ task' = NoTask
    /\ Returns(Ret("poll_next", "Disconnected", task.val))
    /\ reads' = <<>>
    /\ ready' = ""
    /\ UNCHANGED <<config, dropped, pure, reconnect, stream, spawned, elapsed>>

\* lines 225-228
PollConnectingJoinErr ==
    /\ Alive
    /\ state = "Connecting" /\ task.res = "panicked"
    /\ state' = "Disconnected"
    /\ task' = NoTask
    /\ Returns(Ret("poll_next", "Panic", "connect task"))
    /\ reads' = <<>>
    /\ ready' = ""
    /\ UNCHANGED <<config, dropped, pure, reconnect, stream, spawned, elapsed>>

\* Mutant of PollConnectingPending: the pending handle is dropped and a new
\* connect task is spawned in its place.
PollConnectingPending_Respawn ==
    /\ Alive
    /\ state = "Connecting" /\ task.res = "pending"
    /\ state' = "Connecting"
    /\ task' = [SpawnConnect(task.id) EXCEPT !.id = task.id + 1]
    /\ Returns(Ret("poll_next", "Pending", ""))
    /\ reads' = <<>>
    /\ ready' = ""
    /\ UNCHANGED <<config, dropped, pure, reconnect, stream, spawned, elapsed>>

\* lines 229-232
PollConnectingPending ==
    /\ Alive
    /\ state = "Connecting" /\ task.res = "pending"
    /\ state' = "Connecting"
    /\ task' = task
    /\ Returns(Ret("poll_next", "Pending", ""))
    /\ reads' = <<>>
    /\ ready' = ""
    /\ UNCHANGED <<config, dropped, pure, reconnect, stream, spawned, elapsed>>

\* Mutant of PollConnectedSinkErr: the sink's error disconnects the client but
\* is swallowed, the poll returning Pending.
PollConnectedSinkErr_NoEvent ==
    /\ Alive
    /\ state = "Connected"
    /\ state' = "Disconnected"
    /\ stream' = NoStream
    /\ Returns(Ret("poll_next", "Pending", ""))
    /\ reads' = <<>>
    /\ ready' = "Err"
    /\ UNCHANGED <<config, dropped, pure, reconnect, task, spawned, elapsed>>

\* lines 236-243: the sink's poll_ready reports an error.
PollConnectedSinkErr ==
    /\ Alive
    /\ state = "Connected"
    /\ \E e \in StreamErrors :
        /\ state' = "Disconnected"
        /\ stream' = NoStream
        /\ Returns(Ret("poll_next", "Disconnected", e))
    /\ reads' = <<>>
    /\ ready' = "Err"
    /\ UNCHANGED <<config, dropped, pure, reconnect, task, spawned, elapsed>>

\* lines 254, 266-268: the loop drops the Text packets at the head of the stream.
RECURSIVE SkipText(_)
SkipText(inbox) ==
    IF inbox # <<>> /\ Head(inbox).kind = "Text" THEN SkipText(Tail(inbox)) ELSE inbox

\* Mutant of ReadEvent: a StreamStart in mid-session is reported as an
\* orderly close.
ReadEvent_StreamStartAsClose(item) ==
    CASE item.kind = "Stanza" -> Ret("poll_next", "Stanza", item.val)
      [] item.kind = "Err" -> Ret("poll_next", "Disconnected", item.val)
      [] OTHER -> Ret("poll_next", "Disconnected", "Disconnected")

\* Mutant of ReadEvent: the end of the stream's input ends the event stream
\* (None) instead of being reported as Disconnected.
ReadEvent_EofEndsStream(item) ==
    CASE item.kind = "Eof" -> Ret("poll_next", "None", "")
      [] item.kind = "Stanza" -> Ret("poll_next", "Stanza", item.val)
      [] item.kind = "StreamStart" -> Ret("poll_next", "Disconnected", "InvalidStreamStart")
      [] item.kind = "StreamEnd" -> Ret("poll_next", "Disconnected", "Disconnected")
      [] item.kind = "Err" -> Ret("poll_next", "Disconnected", item.val)

\* Mutant of ReadEvent: the stream's error is replaced by Error::Disconnected.
ReadEvent_ErrGeneric(item) ==
    CASE item.kind = "Stanza" -> Ret("poll_next", "Stanza", item.val)
      [] item.kind = "StreamStart" -> Ret("poll_next", "Disconnected", "InvalidStreamStart")
      [] OTHER -> Ret("poll_next", "Disconnected", "Disconnected")

\* What the loop of lines 254-291 returns on the first packet that is not Text.
ReadEvent(item) ==
    CASE item.kind = "Eof" -> Ret("poll_next", "Disconnected", "Disconnected")
      [] item.kind = "Stanza" -> Ret("poll_next", "Stanza", item.val)
      [] item.kind = "StreamStart" -> Ret("poll_next", "Disconnected", "InvalidStreamStart")
      [] item.kind = "StreamEnd" -> Ret("poll_next", "Disconnected", "Disconnected")
      [] item.kind = "Err" -> Ret("poll_next", "Disconnected", item.val)

\* Mutant of ReadState: the Stanza arm returns without putting the stream
\* back into self.state.
ReadState_StanzaTaken(item) == IF item.kind = "Stanza" THEN Taken ELSE "Disconnected"

\* Mutant of ReadState: every arm puts the stream back into self.state, also
\* the arms that return a Disconnected event.
ReadState_StaysConnected(item) == "Connected"

\* The state each arm of the loop assigns before it returns (lines 258, 263,
\* 271, 278, 287).
ReadState(item) == IF item.kind = "Stanza" THEN "Connected" ELSE "Disconnected"

\* Mutant of PollConnectedRead: a Text packet ends the poll, which yields
\* without looking at the packets behind it.
PollConnectedRead_YieldsOnText ==
    /\ Alive
    /\ state = "Connected"
    /\ IF stream.inbox = <<>> \/ Head(stream.inbox).kind = "Text"
       THEN /\ state' = "Connected"
            /\ stream' = [stream EXCEPT !.inbox = IF @ = <<>> THEN @ ELSE Tail(@)]
            /\ reads' = IF stream.inbox = <<>> THEN <<>> ELSE <<Head(stream.inbox)>>
            /\ Returns(Ret("poll_next", "Pending", ""))
       ELSE /\ state' = ReadState(Head(stream.inbox))
            /\ stream' = IF ReadState(Head(stream.inbox)) = "Connected"
                         THEN [stream EXCEPT !.inbox = Tail(@)] ELSE NoStream
            /\ reads' = <<Head(stream.inbox)>>
            /\ Returns(ReadEvent(Head(stream.inbox)))
    /\ ready' = "PendingOrReady"
    /\ UNCHANGED <<config, dropped, pure, reconnect, task, spawned, elapsed>>

\* Mutant of PollConnectedRead: returning a Stanza discards the packets the
\* stream holds behind it.
PollConnectedRead_DropsRest ==
    /\ Alive
    /\ state = "Connected"
    /\ LET rest == SkipText(stream.inbox)
           skipped == Len(stream.inbox) - Len(rest)
       IN  IF rest = <<>>
           THEN /\ state' = "Connected"
                /\ stream' = [stream EXCEPT !.inbox = <<>>]
                /\ reads' = stream.inbox
                /\ Returns(Ret("poll_next", "Pending", ""))
           ELSE /\ state' = ReadState(Head(rest))
                /\ stream' = IF ReadState(Head(rest)) = "Connected"
                             THEN [stream EXCEPT !.inbox = <<>>] ELSE NoStream
                /\ reads' = SubSeq(stream.inbox, 1, skipped + 1)
                /\ Returns(ReadEvent(Head(rest)))
    /\ ready' = "PendingOrReady"
    /\ UNCHANGED <<config, dropped, pure, reconnect, task, spawned, elapsed>>

\* Mutant of PollConnectedRead: a sink that is not ready makes the poll return
\* Pending without reading the stream.
PollConnectedRead_WaitsForSink ==
    /\ Alive
    /\ state = "Connected"
    /\ LET rest == SkipText(stream.inbox)
           skipped == Len(stream.inbox) - Len(rest)
       IN  \/ /\ state' = "Connected"
              /\ stream' = stream
              /\ reads' = <<>>
              /\ Returns(Ret("poll_next", "Pending", ""))
           \/ /\ rest # <<>>
              /\ state' = ReadState(Head(rest))
              /\ stream' = IF ReadState(Head(rest)) = "Connected"
                            THEN [stream EXCEPT !.inbox = Tail(rest)] ELSE NoStream
              /\ reads' = SubSeq(stream.inbox, 1, skipped + 1)
              /\ Returns(ReadEvent(Head(rest)))
    /\ ready' = "PendingOrReady"
    /\ UNCHANGED <<config, dropped, pure, reconnect, task, spawned, elapsed>>

\* lines 236-238, 254-291: the sink is Pending or Ready (both arms are empty),
\* then the stream is read: the Text packets at its head, then the first
\* packet that is not Text, or Pending when the stream has nothing more.
PollConnectedRead ==
    /\ Alive
    /\ state = "Connected"
    /\ LET rest == SkipText(stream.inbox)
           skipped == Len(stream.inbox) - Len(rest)
       IN  IF rest = <<>>
           THEN \* lines 281-285
                /\ state' = "Connected"
                /\ stream' = [stream EXCEPT !.inbox = <<>>]
                /\ reads' = stream.inbox
                /\ Returns(Ret("poll_next", "Pending", ""))
           ELSE \* lines 256-265, 269-280, 286-289
                /\ state' = ReadState(Head(rest))
                /\ stream' = IF ReadState(Head(rest)) = "Connected"
                             THEN [stream EXCEPT !.inbox = Tail(rest)] ELSE NoStream
                /\ reads' = SubSeq(stream.inbox, 1, skipped + 1)
                /\ Returns(ReadEvent(Head(rest)))
    /\ ready' = "PendingOrReady"
    /\ UNCHANGED <<config, dropped, pure, reconnect, task, spawned, elapsed>>

\* poll_next, lines 196-294: the match on the state taken at line 197. While a
\* call is at line 209 (pollPc = "recurse") the state is Connecting, and the
\* branch taken next is that of the recursive call.
PollNext ==
    \/ PollInvalid
    \/ PollDisconnectedReconnect
    \/ PollDisconnected
    \/ PollConnectingOk
    \/ PollConnectingErr
    \/ PollConnectingJoinErr
    \/ PollConnectingPending
    \/ PollConnectedSinkErr
    \/ PollConnectedRead

\* ---------------------------------------------------------------- bound_jid
\* Option<&Jid>
Some(v) == <<"Some", v>>
None == <<"None">>

\* Mutant of BoundJid: the getter answers with the login jid of the config.
BoundJid_LoginJid == IF state = "Connected" THEN Some(config.jid) ELSE None

\* lines 155-160: the jid of the stream held by Connected, None in every
\* other state. The getter takes &self and changes nothing.
BoundJid == IF state = "Connected" THEN Some(stream.jid) ELSE None

\* ------------------------------------------------------------ set_reconnect
\* Mutant of SetReconnect: set_reconnect(true) on a Disconnected client spawns
\* the connect task itself instead of leaving that to the next poll.
SetReconnect_Respawns ==
    /\ Alive
    /\ pollPc = "idle"
    /\ \E b \in BOOLEAN :
        /\ reconnect' = b
        /\ IF b /\ state = "Disconnected" /\ spawned < MaxTasks
           THEN /\ task' = SpawnConnect(spawned + 1)
                /\ spawned' = spawned + 1
                /\ state' = "Connecting"
           ELSE UNCHANGED <<task, spawned, state>>
    /\ ret' = Ret("set_reconnect", "none", "")
    /\ calls' = 1 - calls
    /\ reads' = <<>>
    /\ ready' = ""
    /\ UNCHANGED <<config, dropped, pure, online, stream, pollPc, elapsed>>

\* lines 102-105
SetReconnect ==
    /\ Alive
    /\ pollPc = "idle"
    /\ \E b \in BOOLEAN : reconnect' = b
    /\ ret' = Ret("set_reconnect", "none", "")
    /\ calls' = 1 - calls
    /\ reads' = <<>>
    /\ ready' = ""
    /\ UNCHANGED <<config, dropped, pure, online, state, task, stream, pollPc, spawned, elapsed>>


\* ------------------------------------------------- send_stanza and send_end
\* Packets the caller sends: send_stanza(e) sends Packet::Stanza(e) (with an id
\* attribute added when e has none), send_end sends Packet::StreamEnd.
OpOf(pkt) == IF pkt = "StreamEnd" THEN "send_end" ELSE "send_stanza"
SendPackets == {"s1", "StreamEnd"}

\* lines 163-176 with SinkExt::send: poll_ready (lines 312-319), then start_send
\* (lines 303-310), then poll_flush (lines 321-328). In a state other than
\* Connected poll_ready is Pending at once (line 317) and stays so whenever
\* the future is polled again, since it borrows the client exclusively: the
\* call completes only by being dropped, recorded as kind "Pending".
SendNotConnected ==
    /\ Alive
    /\ pollPc = "idle"
    /\ state # "Connected"
    /\ \E pkt \in SendPackets : ret' = Ret(OpOf(pkt), "Pending", "")
    /\ calls' = 1 - calls
    /\ reads' = <<>>
    /\ ready' = ""
    /\ UNCHANGED <<config, dropped, pure, online, state, reconnect, task, stream, pollPc, spawned, elapsed>>

\* Connected: each of the three steps is delegated to the stream's sink.
\* poll_ready is pending or fails: the packet never reaches start_send.
SendRefused ==
    /\ Alive
    /\ pollPc = "idle"
    /\ state = "Connected"
    /\ \E pkt \in SendPackets :
        \/ ret' = Ret(OpOf(pkt), "Pending", "")
        \/ \E e \in StreamErrors : ret' = Ret(OpOf(pkt), "Err", e)
    /\ calls' = 1 - calls
    /\ reads' = <<>>
    /\ ready' = ""
    /\ UNCHANGED <<config, dropped, pure, online, state, reconnect, task, stream, pollPc, spawned, elapsed>>

\* Mutant of SendAccepted: the packet is put in front of those already handed
\* to the stream's sink.
SendAccepted_Prepends ==
    /\ Alive
    /\ pollPc = "idle"
    /\ state = "Connected"
    /\ Len(stream.outbox) < MaxOutbox
    /\ \E pkt \in SendPackets :
        /\ stream' = [stream EXCEPT !.outbox = <<pkt>> \o @]
        /\ ret' = Ret(OpOf(pkt), "Ok", "")
    /\ calls' = 1 - calls
    /\ reads' = <<>>
    /\ ready' = ""
    /\ UNCHANGED <<config, dropped, pure, online, state, reconnect, task, pollPc, spawned, elapsed>>

\* Mutant of SendAccepted: send_end closes the connection on the client's
\* side at once, without waiting for the peer's close.
SendAccepted_EndCloses ==
    /\ Alive
    /\ pollPc = "idle"
    /\ state = "Connected"
    /\ Len(stream.outbox) < MaxOutbox
    /\ \E pkt \in SendPackets :
        /\ stream' = IF pkt = "StreamEnd" THEN NoStream
                      ELSE [stream EXCEPT !.outbox = Append(@, pkt)]
        /\ state' = IF pkt = "StreamEnd" THEN "Disconnected" ELSE state
        /\ ret' = Ret(OpOf(pkt), "Ok", "")
    /\ calls' = 1 - calls
    /\ reads' = <<>>
    /\ ready' = ""
    /\ UNCHANGED <<config, dropped, pure, online, reconnect, task, pollPc, spawned, elapsed>>

\* poll_ready is ready: start_send hands the packet to the stream's sink, and
\* poll_flush completes, is pending or fails.
SendAccepted ==
    /\ Alive
    /\ pollPc = "idle"
    /\ state = "Connected"
    /\ Len(stream.outbox) < MaxOutbox
    /\ \E pkt \in SendPackets :
        /\ stream' = [stream EXCEPT !.outbox = Append(@, pkt)]
        /\ \/ ret' = Ret(OpOf(pkt), "Ok", "")
           \/ ret' = Ret(OpOf(pkt), "Pending", "")
           \/ \E e \in StreamErrors : ret' = Ret(OpOf(pkt), "Err", e)
    /\ calls' = 1 - calls
    /\ reads' = <<>>
    /\ ready' = ""
    /\ UNCHANGED <<config, dropped, pure, online, state, reconnect, task, pollPc, spawned, elapsed>>

\* ------------------------------------------------------- Sink<Packet> for Client
\* The four operations of the Sink impl, called one by one (SinkExt::send, above,
\* calls three of them in a row). Connected: each is delegated to the stream's
\* sink, whose answer is its own; any other state: lines 308, 317, 326, 335.
\* None of them assigns self.state or self.reconnect.
SinkPollOps == {"poll_ready", "poll_flush", "poll_close"}

\* Mutant of SinkPoll: outside Connected the three polls fail with InvalidState,
\* as start_send does.
SinkPoll_InvalidState(op) ==
    /\ Alive
    /\ pollPc = "idle"
    /\ IF state = "Connected"
       THEN \/ ret' = Ret(op, "Pending", "")
            \/ ret' = Ret(op, "Ok", "")
            \/ \E e \in StreamErrors : ret' = Ret(op, "Err", e)
       ELSE ret' = Ret(op, "Err", "InvalidState")
    /\ calls' = 1 - calls
    /\ reads' = <<>>
    /\ ready' = ""
    /\ UNCHANGED <<config, dropped, pure, online, state, reconnect, task, stream, pollPc, spawned, elapsed>>

\* poll_ready (lines 312-319), poll_flush (lines 321-328), poll_close (lines
\* 330-337): the stream's answer mapped with e.into() when Connected (line
\* 315, 324, 333), Poll::Pending otherwise (lines 317, 326, 335).
SinkPoll(op) ==
    /\ Alive
    /\ pollPc = "idle"
    /\ IF state = "Connected"
       THEN \/ ret' = Ret(op, "Pending", "")
            \/ ret' = Ret(op, "Ok", "")
            \/ \E e \in StreamErrors : ret' = Ret(op, "Err", e)
       ELSE ret' = Ret(op, "Pending", "")
    /\ calls' = 1 - calls
    /\ reads' = <<>>
    /\ ready' = ""
    /\ UNCHANGED <<config, dropped, pure, online, state, reconnect, task, stream, pollPc, spawned, elapsed>>

SinkPollReady == SinkPoll("poll_ready")
SinkPollFlush == SinkPoll("poll_flush")
SinkPollClose == SinkPoll("poll_close")

\* start_send, lines 303-310: Connected hands the packet to the stream's sink,
\* which takes it or fails; any other state is Err(Error::InvalidState).
SinkStartSend ==
    /\ Alive
    /\ pollPc = "idle"
    /\ IF state = "Connected"
       THEN /\ Len(stream.outbox) < MaxOutbox
            /\ \E pkt \in SendPackets :
                \/ /\ stream' = [stream EXCEPT !.outbox = Append(@, pkt)]
                   /\ ret' = Ret("start_send", "Ok", "")
                \/ /\ stream' = stream
                   /\ \E e \in StreamErrors : ret' = Ret("start_send", "Err", e)
       ELSE /\ stream' = stream
            /\ ret' = Ret("start_send", "Err", "InvalidState")
    /\ calls' = 1 - calls
    /\ reads' = <<>>
    /\ ready' = ""
    /\ UNCHANGED <<config, dropped, pure, online, state, reconnect, task, pollPc, spawned, elapsed>>

\* --------------------------------------------------------------------- drop
\* The Client is dropped while Connecting. Client has no Drop impl (lines
\* 29-34, 64-69): its fields are dropped, and with ClientState::Connecting the
\* JoinHandle, which detaches the task and leaves it running on the runtime.
\* In the other states a drop leaves nothing behind that takes a step.
DropClient ==
    /\ Alive
    /\ pollPc = "idle"
    /\ state = "Connecting"
    /\ dropped' = TRUE
    /\ UNCHANGED <<config, pure, online, ready, state, reconnect, task, stream, pollPc, ret, calls, spawned,
                   elapsed, reads>>

\* ------------------------------------------------------------ specification
Next ==
    \/ ConnectUnwrap
    \/ ConnectPhaseOk
    \/ ConnectPhaseErr
    \/ ConnectBindOk
    \/ Deliver
    \/ Tick
    \/ PollNext
    \/ SetReconnect
    \/ SendNotConnected
    \/ SendRefused
    \/ SendAccepted

Spec == Init /\ [][Next]_vars

\* The behaviours in which the owner may also drop the client.
DropNext == Next \/ DropClient
DropSpec == Init /\ [][DropNext]_vars

\* The behaviours in which the owner calls the four operations of the Sink
\* impl one by one instead of through send_stanza and send_end.
SinkNext ==
    \/ ConnectUnwrap
    \/ ConnectPhaseOk
    \/ ConnectPhaseErr
    \/ ConnectBindOk
    \/ Deliver
    \/ Tick
    \/ PollNext
    \/ SetReconnect
    \/ SinkPollReady
    \/ SinkPollFlush
    \/ SinkPollClose
    \/ SinkStartSend
SinkSpec == Init /\ [][SinkNext]_vars

\* The behaviours of Spec with the client polled again and again: a poll_next
\* that would find the connect task completed with Ok is eventually made.
LiveSpec == Init /\ [][Next]_vars /\ WF_vars(PollConnectingOk)

\* ------------------------------------------------------------ pure functions
\* Result<T, E>.
Ok(v) == [ok |-> TRUE, val |-> v, err |-> <<>>]
Err(e) == [ok |-> FALSE, val |-> <<>>, err |-> e]

\* The client's variables, which no pure function touches.
clientVars ==
    <<config, state, reconnect, task, stream, pollPc, ret, calls, spawned, elapsed, reads,
      dropped, online, ready>>

\* ---- sasl/src/common/scram.rs
Providers == {"Sha1", "Sha256"}
\* ScramProvider::name (lines 67-69 and 127-129)
ProviderName(H) == IF H = "Sha1" THEN "SHA-1" ELSE "SHA-256"
\* Length of the derived key (lines 91 and 151)
OutputSize(H) == IF H = "Sha1" THEN 20 ELSE 32
Salts == {"saltA", "saltB"}
IterationCounts == {4096, 8192}
\* Password::Plain(plain) and Password::Pbkdf2 { method, salt, iterations, data }
ScramPasswords ==
    [kind : {"Plain"}, plain : {"pencil"}, method : {""}, salt : {""}, iterations : {0},
     data : {""}]
        \cup [kind : {"Pbkdf2"}, plain : {""}, method : {"SHA-1", "SHA-256", "MD5"},
              salt : Salts, iterations : IterationCounts, data : {"key1"}]
DeriveArgs ==
    [provider : Providers, password : ScramPasswords, salt : Salts,
     iterations : IterationCounts]

\* Sha1::derive (lines 88-118) and Sha256::derive (lines 148-178), which differ
\* in the provider's name and output size only. The PBKDF2 of a plain password
\* is kept as the term that names its inputs.
Derive(H, password, salt, iterations) ==
    IF password.kind = "Plain"
    THEN Ok(<<"pbkdf2-hmac", ProviderName(H), password.plain, salt, iterations, OutputSize(H)>>)
    ELSE IF password.method # ProviderName(H)
    THEN Err(<<"IncompatibleHashingMethod", password.method, ProviderName(H)>>)
    ELSE IF password.salt = salt
    THEN Err(<<"IncorrectSalt">>)
    ELSE IF password.iterations = iterations
    THEN Err(<<"IncompatibleIterationCount", password.iterations, iterations>>)
    ELSE Ok(password.data)

ApplyDerive ==
    /\ pure.fn = "derive" /\ ~pure.done
    /\ pure' = [pure EXCEPT !.done = TRUE,
                            !.out = Derive(pure.arg.provider, pure.arg.password,
                                           pure.arg.salt, pure.arg.iterations)]
    /\ UNCHANGED clientVars

\* ---- sasl/src/mechanisms/anonymous.rs
\* SaslCredentials { username, secret, channel_binding }, the secret being
\* SaslSecret::None or a secret with content.
SaslCredentialsSet ==
    [username : {"", "user"},
     secret : [kind : {"None"}, val : {""}] \cup [kind : {"Password"}, val : {"", "pencil"}],
     channel_binding : {"None", "TlsUnique"}]

\* Mutant of AnonymousFromCredentials: the secret is not looked at.
AnonymousFromCredentials_AcceptsAny(credentials) == Ok("Anonymous")

\* Anonymous::from_credentials (lines 25-31)
AnonymousFromCredentials(credentials) ==
    IF credentials.secret.kind = "None"
    THEN Ok("Anonymous")
    ELSE Err(<<"the anonymous sasl mechanism requires no credentials">>)

\* Anonymous::name (lines 21-23)
AnonymousName(mechanism) == "ANONYMOUS"

ApplyFromCredentials ==
    /\ pure.fn = "from_credentials" /\ ~pure.done
    /\ pure' = [pure EXCEPT !.done = TRUE, !.out = AnonymousFromCredentials(pure.arg)]
    /\ UNCHANGED clientVars

\* name() of the mechanism that from_credentials returned.
ApplyName ==
    /\ pure.fn = "from_credentials" /\ pure.done /\ pure.out.ok
    /\ pure' = [fn |-> "name", arg |-> pure.out.val, done |-> TRUE,
                out |-> AnonymousName(pure.out.val)]
    /\ UNCHANGED clientVars

\* ---- src/presence.rs
DEFAULT_NS == "jabber:client"
\* minidom::Element: name, namespace, attributes (pairs of name and value), the
\* concatenation of its text nodes (Element::text) and its child elements
\* (Element::children).
Elem(name, ns, attrs, text, children) ==
    [name |-> name, ns |-> ns, attrs |-> attrs, text |-> text, children |-> children]
Leaf(name, ns, attrs, text) == Elem(name, ns, attrs, text, <<>>)
\* Element::attr: <<>> for None, <<v>> for Some(v).
Attr(elem, key) ==
    IF \E a \in elem.attrs : a[1] = key
    THEN <<(CHOOSE a \in elem.attrs : a[1] = key)[2]>>
    ELSE <<>>
\* Element::is
Is(elem, name, ns) == elem.name = name /\ elem.ns = ns
ParseError(msg) == <<"ParseError", msg>>

\* Type (lines 86-162) and Show (lines 21-77): the variants and their strings.
TypeTable ==
    {<<"Error", "error">>, <<"Probe", "probe">>, <<"Subscribe", "subscribe">>,
     <<"Subscribed", "subscribed">>, <<"Unavailable", "unavailable">>,
     <<"Unsubscribe", "unsubscribe">>, <<"Unsubscribed", "unsubscribed">>}
ShowTable == {<<"Away", "away">>, <<"Chat", "chat">>, <<"Dnd", "dnd">>, <<"Xa", "xa">>}
Types == {"None"} \cup {t[1] : t \in TypeTable}
Shows == {"None"} \cup {t[1] : t \in ShowTable}
\* FromStr for Type (lines 123-143) and for Show (lines 45-58)
FromTable(table, str, msg) ==
    IF \E t \in table : t[2] = str
    THEN Ok((CHOOSE t \in table : t[2] = str)[1])
    ELSE Err(ParseError(msg))
TypeFromStr(str) == FromTable(TypeTable, str, "Invalid 'type' attribute on presence element.")
ShowFromStr(str) == FromTable(ShowTable, str, "Invalid value for show.")
\* IntoAttributeValue for Type (lines 145-162): None gives no attribute.
TypeAttrs(type_) == {<<"type", t[2]>> : t \in {u \in TypeTable : u[1] = type_}}
\* IntoElements for Show (lines 60-77): None gives no element.
ShowElements(show) ==
    IF show = "None" THEN <<>>
    ELSE <<Leaf("show", DEFAULT_NS, {}, (CHOOSE t \in ShowTable : t[1] = show)[2])>>

\* Priority = i8 (line 82): format!("{}", priority) and Priority::from_str,
\* on texts without a plus sign or leading zeros.
I8 == -128..127
FormatI8(n) == ToString(n)
ParseI8(str) ==
    IF \E n \in I8 : ToString(n) = str
    THEN Ok(CHOOSE n \in I8 : ToString(n) = str)
    ELSE Err(<<"ParseIntError">>)

\* BTreeMap<Lang, Status>: a function on the languages present, iterated in
\* the order of the keys.
LangOrder == <<"", "fr">>
Langs == {LangOrder[i] : i \in 1..Len(LangOrder)}
StatusMaps == UNION {[D -> {"Here!"}] : D \in SUBSET Langs}
StatusElement(lang, status) ==
    Leaf("status", DEFAULT_NS, IF lang = "" THEN {} ELSE {<<"xml:lang", lang>>}, status)
RECURSIVE StatusElementsFrom(_, _)
StatusElementsFrom(statuses, i) ==
    IF i > Len(LangOrder) THEN <<>>
    ELSE (IF LangOrder[i] \in DOMAIN statuses
          THEN <<StatusElement(LangOrder[i], statuses[LangOrder[i]])>> ELSE <<>>)
            \o StatusElementsFrom(statuses, i + 1)
StatusElements(statuses) == StatusElementsFrom(statuses, 1)

\* From<Presence> for Element (lines 317-352). The priority is appended to
\* <presence/> itself as a string, that is as a text node (lines 344-348).
\* The attributes from, to and id (lines 321-323) are left out.
PresenceToElement(presence) ==
    Elem("presence", DEFAULT_NS,
         TypeAttrs(presence.type_),
         IF presence.priority = 0 THEN "" ELSE FormatI8(presence.priority),
         ShowElements(presence.show) \o StatusElements(presence.statuses)
            \o presence.payloads)

\* What the loop of lines 275-306 has gathered: the error that ended it if
\* any, show and priority as Options, the statuses and the payloads.
ParseStart ==
    [err |-> <<>>, show |-> <<>>, priority |-> <<>>, statuses |-> <<>>, payloads |-> <<>>]
Fail(acc, e) == [acc EXCEPT !.err = e]
\* check_no_attributes!, check_no_unknown_attributes! and check_no_children!
\* (lines 282-283, 286-287, 300-301), with the messages of the tests of lines
\* 573-611.
CheckElem(elem, known) ==
    IF \E a \in elem.attrs : a[1] \notin known
    THEN ParseError("Unknown attribute in " \o elem.name \o " element.")
    ELSE IF elem.children # <<>>
    THEN ParseError("Unknown child in " \o elem.name \o " element.")
    ELSE <<>>

\* Mutant of ParseChild: a second status for a language replaces the first.
ParseChild_StatusOverwrites(acc, elem) ==
    IF Is(elem, "show", DEFAULT_NS)
    THEN IF acc.show # <<>>
         THEN Fail(acc, ParseError("More than one show element in a presence."))
         ELSE IF CheckElem(elem, {}) # <<>> THEN Fail(acc, CheckElem(elem, {}))
         ELSE IF ~ShowFromStr(elem.text).ok THEN Fail(acc, ShowFromStr(elem.text).err)
         ELSE [acc EXCEPT !.show = <<ShowFromStr(elem.text).val>>]
    ELSE IF Is(elem, "status", DEFAULT_NS)
    THEN IF CheckElem(elem, {"xml:lang"}) # <<>> THEN Fail(acc, CheckElem(elem, {"xml:lang"}))
         ELSE LET lang == IF Attr(elem, "xml:lang") = <<>> THEN ""
                          ELSE Attr(elem, "xml:lang")[1]
              IN  [acc EXCEPT !.statuses =
                        SelectSeq(@, LAMBDA st : st[1] # lang) \o <<<<lang, elem.text>>>>]
    ELSE IF Is(elem, "priority", DEFAULT_NS)
    THEN IF acc.priority # <<>>
         THEN Fail(acc, ParseError("More than one priority element in a presence."))
         ELSE IF CheckElem(elem, {}) # <<>> THEN Fail(acc, CheckElem(elem, {}))
         ELSE IF ~ParseI8(elem.text).ok THEN Fail(acc, ParseI8(elem.text).err)
         ELSE [acc EXCEPT !.priority = <<ParseI8(elem.text).val>>]
    ELSE [acc EXCEPT !.payloads = Append(@, elem)]

\* The body of the loop, lines 276-305.
ParseChild(acc, elem) ==
    IF Is(elem, "show", DEFAULT_NS)
    THEN IF acc.show # <<>>
         THEN Fail(acc, ParseError("More than one show element in a presence."))
         ELSE IF CheckElem(elem, {}) # <<>> THEN Fail(acc, CheckElem(elem, {}))
         ELSE IF ~ShowFromStr(elem.text).ok THEN Fail(acc, ShowFromStr(elem.text).err)
         ELSE [acc EXCEPT !.show = <<ShowFromStr(elem.text).val>>]
    ELSE IF Is(elem, "status", DEFAULT_NS)
    THEN IF CheckElem(elem, {"xml:lang"}) # <<>> THEN Fail(acc, CheckElem(elem, {"xml:lang"}))
         ELSE LET lang == IF Attr(elem, "xml:lang") = <<>> THEN ""
                          ELSE Attr(elem, "xml:lang")[1]
              IN  IF \E i \in 1..Len(acc.statuses) : acc.statuses[i][1] = lang
                  THEN Fail(acc, ParseError("Status element present twice for the same xml:lang."))
                  ELSE [acc EXCEPT !.statuses = Append(@, <<lang, elem.text>>)]
    ELSE IF Is(elem, "priority", DEFAULT_NS)
    THEN IF acc.priority # <<>>
         THEN Fail(acc, ParseError("More than one priority element in a presence."))
         ELSE IF CheckElem(elem, {}) # <<>> THEN Fail(acc, CheckElem(elem, {}))
         ELSE IF ~ParseI8(elem.text).ok THEN Fail(acc, ParseI8(elem.text).err)
         ELSE [acc EXCEPT !.priority = <<ParseI8(elem.text).val>>]
    ELSE [acc EXCEPT !.payloads = Append(@, elem)]

\* for elem in root.children(): stops at the first error.
RECURSIVE ParseChildren(_, _)
ParseChildren(children, acc) ==
    IF children = <<>> \/ acc.err # <<>> THEN acc
    ELSE ParseChildren(Tail(children), ParseChild(acc, Head(children)))

\* The statuses gathered as pairs, as the map they make.
StatusMap(pairs) ==
    [lang \in {pairs[i][1] : i \in 1..Len(pairs)} |->
        pairs[CHOOSE i \in 1..Len(pairs) : pairs[i][1] = lang][2]]

\* TryFrom<Element> for Presence (lines 258-315)
PresenceTryFrom(root) ==
    IF ~Is(root, "presence", DEFAULT_NS)
    THEN Err(ParseError("This is not a presence element."))
    ELSE LET type_ == IF Attr(root, "type") = <<>> THEN Ok("None")
                      ELSE TypeFromStr(Attr(root, "type")[1])
             acc == ParseChildren(root.children, ParseStart)
         IN  IF ~type_.ok THEN type_
             ELSE IF acc.err # <<>> THEN Err(acc.err)
             ELSE Ok([type_ |-> type_.val,
                      show |-> IF acc.show = <<>> THEN "None" ELSE acc.show[1],
                      statuses |-> StatusMap(acc.statuses),
                      priority |-> IF acc.priority = <<>> THEN 0 ELSE acc.priority[1],
                      payloads |-> acc.payloads])

\* Sequences of at most n elements of S.
SeqsUpTo(S, n) == UNION {[1..k -> S] : k \in 0..n}

\* Elements that are payloads of a presence: neither show, status nor priority
\* of the default namespace.
PayloadElements ==
    {Leaf("test", "invalid", {}, ""), Leaf("show", "urn:example:other", {}, "chat")}
Priorities == {-128, -1, 0, 1, 127}
Presences ==
    [type_ : Types, show : Shows, statuses : StatusMaps, priority : Priorities,
     payloads : SeqsUpTo(PayloadElements, MaxPayloads)]

\* Children of the <presence/> elements that are parsed.
ChildElements ==
    PayloadElements
        \cup {Leaf("show", DEFAULT_NS, {}, "chat"), Leaf("show", DEFAULT_NS, {}, "online"),
              Leaf("status", DEFAULT_NS, {}, "Here!"),
              Leaf("status", DEFAULT_NS, {<<"xml:lang", "fr">>}, "Here!"),
              Leaf("status", DEFAULT_NS, {<<"coucou", "">>}, ""),
              Leaf("priority", DEFAULT_NS, {}, "-1"),
              Leaf("priority", DEFAULT_NS, {}, "128")}
PresenceElements ==
    {Elem("presence", DEFAULT_NS, attrs, "", children) :
        attrs \in {{}, {<<"type", "unavailable">>}},
        children \in SeqsUpTo(ChildElements, MaxChildren)}

\* Presence::try_from(Element::from(presence))
ApplyPresenceRoundTrip ==
    /\ pure.fn = "presence_round_trip" /\ ~pure.done
    /\ pure' = [pure EXCEPT !.done = TRUE,
                            !.out = PresenceTryFrom(PresenceToElement(pure.arg))]
    /\ UNCHANGED clientVars

ApplyPresenceTryFrom ==
    /\ pure.fn = "presence_try_from" /\ ~pure.done
    /\ pure' = [pure EXCEPT !.done = TRUE, !.out = PresenceTryFrom(pure.arg)]
    /\ UNCHANGED clientVars

\* ---- src/ibb.rs
IBB == "http://jabber.org/protocol/ibb"
\* generate_attribute!(Stanza, "stanza", {...}, Default = Iq), lines 17-20
StanzaTable == {<<"Iq", "iq">>, <<"Message", "message">>}
StanzaDefault == "Iq"

\* Mutant of OpenAttrs: sid is declared, and so read, before block-size.
OpenAttrs_SidFirst ==
    <<[field |-> "sid", attr |-> "sid", type |-> "String", action |-> "required"],
      [field |-> "block_size", attr |-> "block-size", type |-> "u16", action |-> "required"],
      [field |-> "stanza", attr |-> "stanza", type |-> "Stanza", action |-> "default"]>>

\* The attributes of Open in the order of their declaration, lines 22-26.
OpenAttrs ==
    <<[field |-> "block_size", attr |-> "block-size", type |-> "u16", action |-> "required"],
      [field |-> "sid", attr |-> "sid", type |-> "String", action |-> "required"],
      [field |-> "stanza", attr |-> "stanza", type |-> "Stanza", action |-> "default"]>>

\* u16::from_str, on texts without a plus sign or leading zeros.
U16 == 0..65535
ParseU16(str) ==
    IF \E n \in U16 : ToString(n) = str
    THEN Ok(CHOOSE n \in U16 : ToString(n) = str)
    ELSE Err(<<"ParseIntError">>)
\* FromStr of the type of an attribute.
ParseAttr(type, str) ==
    CASE type = "u16" -> ParseU16(str)
      [] type = "String" -> Ok(str)
      [] type = "Stanza" -> FromTable(StanzaTable, str, "Unknown value for 'stanza' attribute.")
\* get_attr!(elem, name, required) and get_attr!(elem, name, default)
GetAttr(elem, decl) ==
    IF Attr(elem, decl.attr) # <<>> THEN ParseAttr(decl.type, Attr(elem, decl.attr)[1])
    ELSE IF decl.action = "required"
    THEN Err(ParseError("Required attribute '" \o decl.attr \o "' missing."))
    ELSE Ok(StanzaDefault)
\* The fields of the struct are computed in the order of their declaration;
\* the `?` of the first that fails returns its error.
RECURSIVE GetAttrs(_, _, _)
GetAttrs(elem, decls, fields) ==
    IF decls = <<>> THEN Ok(fields)
    ELSE LET got == GetAttr(elem, Head(decls))
         IN  IF ~got.ok THEN got
             ELSE GetAttrs(elem, Tail(decls), Append(fields, <<Head(decls).field, got.val>>))
\* TryFrom<Element> for Open, as generate_element_with_only_attributes! makes it.
OpenTryFrom(elem) ==
    IF ~Is(elem, "open", IBB) THEN Err(ParseError("This is not a open element."))
    ELSE IF elem.children # <<>> THEN Err(ParseError("Unknown child in open element."))
    ELSE IF \E a \in elem.attrs : a[1] \notin {OpenAttrs[i].attr : i \in 1..Len(OpenAttrs)}
    THEN Err(ParseError("Unknown attribute in open element."))
    ELSE GetAttrs(elem, OpenAttrs, <<>>)

\* <open/> elements: each attribute absent or with one of the given values.
AttrChoices(name, values) == {{}} \cup {{<<name, v>>} : v \in values}
OpenElements ==
    {Elem(name, IBB, bs \cup sid \cup st \cup other, "", <<>>) :
        name \in {"open", "close"},
        bs \in AttrChoices("block-size", {"3", "128", "-5", "65536"}),
        sid \in AttrChoices("sid", {"coucou"}),
        st \in AttrChoices("stanza", {"iq", "message", "fdsq"}),
        other \in AttrChoices("coucou", {""})}

ApplyOpenTryFrom ==
    /\ pure.fn = "open_try_from" /\ ~pure.done
    /\ pure' = [pure EXCEPT !.done = TRUE, !.out = OpenTryFrom(pure.arg)]
    /\ UNCHANGED clientVars

\* ---- specification of the pure functions
PureCalls ==
    [fn : {"derive"}, arg : DeriveArgs, done : {FALSE}, out : {<<>>}]
        \cup [fn : {"from_credentials"}, arg : SaslCredentialsSet, done : {FALSE}, out : {<<>>}]
        \cup [fn : {"presence_round_trip"}, arg : Presences, done : {FALSE}, out : {<<>>}]
        \cup [fn : {"presence_try_from"}, arg : PresenceElements, done : {FALSE}, out : {<<>>}]
        \cup [fn : {"open_try_from"}, arg : OpenElements, done : {FALSE}, out : {<<>>}]

\* One function is applied to one argument; no client is constructed.
PureInit ==
    /\ pure \in PureCalls
    /\ config = [jid |-> "", password |-> "", server |-> ""]
    /\ task = NoTask
    /\ state = "Disconnected"
    /\ reconnect = FALSE
    /\ stream = NoStream
    /\ pollPc = "idle"
    /\ ret = NoCall
    /\ calls = 0
    /\ spawned = 0
    /\ elapsed = FALSE
    /\ reads = <<>>
    /\ dropped = FALSE
    /\ online = ""
    /\ ready = ""

PureNext ==
    \/ ApplyDerive
    \/ ApplyFromCredentials
    \/ ApplyName
    \/ ApplyPresenceRoundTrip
    \/ ApplyPresenceTryFrom
    \/ ApplyOpenTryFrom

PureSpec == PureInit /\ [][PureNext]_vars

\* ------------------------------------------------------------------ claims
\* A step in which a call of poll_next returns.
PollReturns == calls' # calls /\ ret'.op = "poll_next"
\* A step in which a call of poll_next returns an event of the given kind.
Emits(kind) == PollReturns /\ ret'.kind = kind
\* A step in which a call of send_stanza returns (or is dropped while pending).
SendStanzaReturns == calls' # calls /\ ret'.op = "send_stanza"

\* C1: whenever no poll_next call is in progress, the client's state is
\* Disconnected, Connecting or Connected, never Invalid.
C1_InvalidNeverPersisted ==
    pollPc = "idle" => state \in {"Disconnected", "Connecting", "Connected"}

\* C2: a poll_next called in state Disconnected with reconnect = false returns
\* end-of-stream (None) and leaves the state Disconnected.
C2_DisconnectedStays ==
    [][(state = "Disconnected" /\ ~reconnect /\ PollReturns)
        => (ret'.kind = "None" /\ state' = "Disconnected")]_vars

\* C3: send_stanza called while the client is not Connected completes with
\* Err(InvalidState).
C3_SendInvalidState ==
    [][(state # "Connected" /\ SendStanzaReturns)
        => ret' = Ret("send_stanza", "Err", "InvalidState")]_vars

\* C4: Online is emitted only by a step that takes the client from Connecting
\* to Connected, and at most once by it; every step that takes the client from
\* Connected to Disconnected emits exactly one event, a Disconnected.
C4_OnlineAndDisconnectedPerTransition ==
    [][/\ Emits("Online") => (state = "Connecting" /\ state' = "Connected")
       /\ (state = "Connecting" /\ state' = "Connected") => Emits("Online")
       /\ (state = "Connected" /\ state' = "Disconnected") => Emits("Disconnected")]_vars
C4_Witness ==
    /\ state = "Disconnected"
    /\ ret = Ret("poll_next", "Disconnected", "InvalidStreamStart")

\* C5: every failure of the connect task, its abnormal termination included,
\* is returned by poll_next as one Disconnected(err) event, never as a panic.
C5_TaskFailureSurfaces ==
    [][(state = "Connecting" /\ task.res \in {"err", "panicked"} /\ PollReturns)
        => (ret'.kind = "Disconnected" /\ state' = "Disconnected")]_vars

\* C6: after a Disconnected event the client is Disconnected; the next poll
\* then ends the event stream when reconnect is off and spawns a connect task
\* when reconnect is on; and once a connect task has succeeded, a client that
\* keeps being polled eventually emits Online.
C6_EndOrOnlineAgain ==
    /\ [][PollReturns /\ ret'.kind = "Disconnected" => state' = "Disconnected"]_vars
    /\ [][(state = "Disconnected" /\ ~reconnect /\ PollReturns) => ret'.kind = "None"]_vars
    /\ [][(state = "Disconnected" /\ reconnect /\ (PollReturns \/ state' # state))
            => (state' = "Connecting" /\ spawned' = spawned + 1
                /\ task'.res = "pending" /\ calls' = calls)]_vars
    /\ (state = "Connecting" /\ task.res = "ok")
            ~> (state = "Connected" /\ ret.kind = "Online")
C6_Witness ==
    /\ ret.op = "poll_next" /\ ret.kind = "Online"
    /\ spawned > 1 /\ reconnect

\* C7: a connect task is spawned only when a whole second has passed since
\* the previous one was spawned.
C7_ReconnectRateLimited ==
    [][spawned' # spawned => elapsed]_vars

\* C8: a poll_next in state Connecting whose task has completed with
\* Ok(stream) makes the state Connected with that stream and returns Online
\* with the stream's jid as bound_jid and resumed = false.
C8_ConnectingOk ==
    [][(state = "Connecting" /\ task.res = "ok" /\ PollReturns)
        => /\ state' = "Connected"
           /\ stream' = [jid |-> task.val, inbox |-> <<>>, outbox |-> <<>>]
           /\ ret'.kind = "Online"
           /\ ret'.val = stream'.jid
           /\ ret'.resumed = FALSE]_vars
C8_Witness ==
    /\ state = "Connected"
    /\ ret.kind = "Online" /\ ret.val = stream.jid /\ ~ret.resumed
    /\ ret.val = "user@example.org/r1"

\* C9: a poll_next in state Connecting whose task has completed with Err(e)
\* makes the state Disconnected and returns Disconnected(e) with that error.
C9_ConnectingErr ==
    [][(state = "Connecting" /\ task.res = "err" /\ PollReturns)
        => /\ state' = "Disconnected"
           /\ ret' = Ret("poll_next", "Disconnected", task.val)]_vars
C9_Witness ==
    /\ state = "Disconnected"
    /\ ret = Ret("poll_next", "Disconnected", "NotAuthorized")

\* C10: a poll_next in state Connecting whose task is still pending returns
\* Pending, and the state stays Connecting with the same task: none is spawned.
C10_ConnectingPending ==
    [][(state = "Connecting" /\ task.res = "pending" /\ PollReturns)
        => /\ ret' = Ret("poll_next", "Pending", "")
           /\ state' = "Connecting"
           /\ task' = task
           /\ spawned' = spawned]_vars
C10_Witness ==
    /\ state = "Connecting" /\ task.res = "pending" /\ task.phase > 1
    /\ ret = Ret("poll_next", "Pending", "")

\* --------------------------------------------------------- claims C11..C20
\* A step of a poll_next call: it returns, or it moves to or from line 209.
PollStep == PollReturns \/ pollPc' # pollPc
\* A step in which send_stanza or send_end returns (or is dropped while pending).
SendReturns == calls' # calls /\ ret'.op \in {"send_stanza", "send_end"}
\* A step of the connect task whose handle the client holds.
TaskStep ==
    state = "Connecting" /\ state' = "Connecting" /\ task'.id = task.id /\ task' # task
Last(seq) == seq[Len(seq)]
IsText(item) == item.kind = "Text"
IsStanza(item) == item.kind = "Stanza"
NonText(inbox) == SelectSeq(inbox, LAMBDA x : ~IsText(x))
StanzasOf(inbox) == SelectSeq(inbox, IsStanza)
IsPrefix(a, b) == Len(a) <= Len(b) /\ a = SubSeq(b, 1, Len(a))
PhaseIndex(name) == CHOOSE i \in 1..Len(Phases) : Phases[i] = name
\* A poll_next in state Connected returns after the stream has yielded packets,
\* the first of them that is not Text being of the given kind.
Yields(kind) ==
    /\ state = "Connected" /\ PollReturns /\ reads' # <<>>
    /\ NonText(stream.inbox) # <<>>
    /\ Head(NonText(stream.inbox)).kind = kind

\* C11: a poll_next in state Disconnected with reconnect = true spawns a new
\* connect task and enters Connecting without returning anything; what the
\* call then returns is what a poll in state Connecting returns for that task.
C11_ReconnectSpawns ==
    /\ [][(state = "Disconnected" /\ reconnect /\ PollStep)
            => /\ state' = "Connecting"
               /\ task' = [id |-> spawned + 1, server |-> config.server,
                           jid |-> config.jid, password |-> config.password,
                           phase |-> 1, tls |-> "",
                           res |-> "pending", val |-> ""]
               /\ spawned' = spawned + 1
               /\ ret' = ret /\ calls' = calls
               /\ pollPc' = "recurse"]_vars
    /\ [][(pollPc = "recurse" /\ calls' # calls)
            => /\ state = "Connecting" /\ ret'.op = "poll_next" /\ pollPc' = "idle"
               /\ spawned' = spawned
               /\ task.res = "pending"
                    => ret'.kind = "Pending" /\ state' = "Connecting" /\ task' = task
               /\ task.res = "ok"
                    => ret'.kind = "Online" /\ ret'.val = task.val /\ state' = "Connected"
               /\ task.res = "err"
                    => ret'.kind = "Disconnected" /\ ret'.val = task.val
                       /\ state' = "Disconnected"
               /\ task.res = "panicked" => ret'.kind = "Panic"]_vars
C11_Witness ==
    /\ pollPc = "idle" /\ state = "Connecting" /\ reconnect
    /\ task.id = 2 /\ task.res = "pending"
    /\ ret = Ret("poll_next", "Pending", "")

\* C12: a poll_next in state Connected never returns a Text packet and never
\* end-of-stream; every packet it reads before the last is Text; it stops on
\* a Text only when the stream has nothing more, returning Pending; so with
\* a Text and then a Stanza in the stream, a poll that reads returns the Stanza.
C12_TextIgnored ==
    [][(state = "Connected" /\ PollReturns)
        => /\ ret'.kind \in {"Pending", "Stanza", "Disconnected"}
           /\ IsPrefix(reads', stream.inbox)
           /\ \A i \in 1..Len(reads') : i < Len(reads') => IsText(reads'[i])
           /\ (reads' # <<>> /\ IsText(Last(reads')))
                => /\ reads' = stream.inbox
                   /\ ret'.kind = "Pending" /\ state' = "Connected"
                   /\ stream'.inbox = <<>>
           /\ (reads' = <<>> /\ stream.inbox # <<>>) => ret'.kind = "Disconnected"
           /\ (reads' # <<>> /\ Len(stream.inbox) >= 2
                /\ IsText(stream.inbox[1]) /\ IsStanza(stream.inbox[2]))
                => ret' = Ret("poll_next", "Stanza", stream.inbox[2].val)]_vars
C12_Witness ==
    /\ state = "Connected"
    /\ reads = <<[kind |-> "Text", val |-> ""], [kind |-> "Stanza", val |-> "s1"]>>
    /\ ret = Ret("poll_next", "Stanza", "s1")

\* C13: when the stream yields a Stanza, poll_next returns the event Stanza
\* with that element and the state stays Connected with the same stream, which
\* keeps every packet behind the Stanza.
C13_StanzaEvent ==
    [][Yields("Stanza")
        => /\ ret' = Ret("poll_next", "Stanza", Head(NonText(stream.inbox)).val)
           /\ state' = "Connected"
           /\ stream'.jid = stream.jid /\ stream'.outbox = stream.outbox
           /\ stream.inbox = reads' \o stream'.inbox
           /\ Last(reads') = Head(NonText(stream.inbox))]_vars
C13_Witness ==
    /\ state = "Connected" /\ stream.outbox # <<>>
    /\ reads = <<[kind |-> "Stanza", val |-> "s2"]>>
    /\ ret = Ret("poll_next", "Stanza", "s2")

\* C14: when the stream yields a StreamStart, the state becomes Disconnected
\* and poll_next returns Disconnected(InvalidStreamStart).
C14_StreamStart ==
    [][Yields("StreamStart")
        => /\ state' = "Disconnected"
           /\ ret' = Ret("poll_next", "Disconnected", "InvalidStreamStart")]_vars
C14_Witness ==
    /\ state = "Disconnected"
    /\ reads # <<>> /\ Last(reads).kind = "StreamStart"
    /\ ret = Ret("poll_next", "Disconnected", "InvalidStreamStart")

\* C15: when the stream yields StreamEnd or ends (None), the state becomes
\* Disconnected and poll_next returns Disconnected(Error::Disconnected), the
\* same event in both cases.
C15_StreamEndOrEof ==
    [][(Yields("StreamEnd") \/ Yields("Eof"))
        => /\ state' = "Disconnected"
           /\ ret' = Ret("poll_next", "Disconnected", "Disconnected")]_vars
C15_Witness ==
    /\ state = "Disconnected"
    /\ reads # <<>> /\ Last(reads).kind \in {"StreamEnd", "Eof"}
    /\ ret = Ret("poll_next", "Disconnected", "Disconnected")

\* C16: when reading the stream yields Err(e), the state becomes Disconnected
\* and poll_next returns Disconnected(e) with that error.
C16_StreamErr ==
    [][Yields("Err")
        => /\ state' = "Disconnected"
           /\ ret' = Ret("poll_next", "Disconnected", Head(NonText(stream.inbox)).val)]_vars
C16_Witness ==
    /\ state = "Disconnected"
    /\ reads # <<>> /\ Last(reads).kind = "Err"
    /\ ret = Ret("poll_next", "Disconnected", Last(reads).val)

\* C17: a poll_next that returns a Stanza returns the oldest Stanza the stream
\* holds and leaves the others in their order; a poll_next that returns no
\* Stanza has read none; and no other step removes or reorders the Stanzas the
\* stream holds. Hence the Stanza events of a connection are the Stanza
\* packets of its stream, in order, none dropped or duplicated.
C17_InboundOrder ==
    /\ [][(state = "Connected" /\ PollReturns)
            => /\ ret'.kind = "Stanza"
                    => /\ StanzasOf(stream.inbox) # <<>>
                       /\ ret'.val = Head(StanzasOf(stream.inbox)).val
                       /\ state' = "Connected"
                       /\ StanzasOf(stream'.inbox) = Tail(StanzasOf(stream.inbox))
                       /\ StanzasOf(reads') = <<Head(StanzasOf(stream.inbox))>>
               /\ ret'.kind # "Stanza" => StanzasOf(reads') = <<>>
               /\ (ret'.kind # "Stanza" /\ state' = "Connected")
                    => StanzasOf(stream'.inbox) = StanzasOf(stream.inbox)]_vars
    /\ [][(state = "Connected" /\ state' = "Connected" /\ ~PollReturns)
            => IsPrefix(stream.inbox, stream'.inbox)]_vars
C17_Witness ==
    /\ state = "Connected"
    /\ ret = Ret("poll_next", "Stanza", "s1")
    /\ stream.inbox = <<[kind |-> "Stanza", val |-> "s2"]>>

\* C18: while Connected, the packets handed to the stream's sink grow only by
\* a send call appending its own packet at the end; a send that returns Ok
\* has appended it; a poll_next leaves them as they are.
C18_OutboundOrder ==
    [][(state = "Connected" /\ state' = "Connected")
        => /\ SendReturns
                => \/ stream'.outbox = stream.outbox
                   \/ \E pkt \in SendPackets :
                        /\ OpOf(pkt) = ret'.op
                        /\ stream'.outbox = Append(stream.outbox, pkt)
           /\ (SendReturns /\ ret'.kind = "Ok")
                => Len(stream'.outbox) = Len(stream.outbox) + 1
           /\ ~SendReturns => stream'.outbox = stream.outbox]_vars
C18_Witness ==
    /\ state = "Connected"
    /\ stream.outbox = <<"s1", "StreamEnd">>
    /\ ret = Ret("send_end", "Ok", "")

\* C19: when the server's first features do not advertise STARTTLS, the task
\* goes no further than the check of the features, where it fails with
\* NoTls; a task that has reached SASL auth saw STARTTLS advertised.
C19_NoTlsNoAuth ==
    /\ [](state = "Connecting"
            => /\ task.tls = "no"
                    => /\ task.phase = PhaseIndex("features")
                       /\ task.res \in {"pending", "err"}
                       /\ task.res = "err" => task.val = "NoTls"
               /\ task.phase >= PhaseIndex("auth") => task.tls = "yes")
    /\ [][(TaskStep /\ task.tls = "no")
            => (task'.res = "err" /\ task'.val = "NoTls" /\ task'.phase = task.phase)]_vars
C19_Witness ==
    /\ state = "Connecting"
    /\ task.tls = "no" /\ task.res = "err" /\ task.val = "NoTls"

\* C20: the phases of the connect task run in the order TCP connect, stream
\* open, STARTTLS, stream re-open, SASL auth, stream re-open, bind: a step of
\* the task either ends its current phase with success and starts the next
\* one, or ends the task with the current phase's error, or, in the bind
\* phase, ends it with Ok(stream); a task that has ended takes no step.
C20_PhaseOrder ==
    /\ SelectSeq(Phases, LAMBDA ph : ph \notin {"unwrap", "features"})
            = <<"tcp", "open1", "starttls", "open2", "auth", "open3", "bind">>
    /\ [](task.res = "ok" => Phases[task.phase] = "bind")
    /\ [][TaskStep
            => /\ task.res = "pending"
               /\ \/ /\ task'.res = "pending"
                     /\ task.phase < Len(Phases) /\ task'.phase = task.phase + 1
                  \/ /\ task'.res = "err"
                     /\ task'.phase = task.phase
                     /\ task'.val = PhaseError(Phases[task.phase])
                     /\ Phases[task.phase] # "unwrap"
                  \/ /\ task'.res = "ok"
                     /\ Phases[task.phase] = "bind" /\ task'.phase = task.phase
                  \/ /\ task'.res = "panicked"
                     /\ Phases[task.phase] = "unwrap" /\ task'.phase = task.phase]_vars
C20_Witness ==
    /\ state = "Connecting"
    /\ task.res = "ok" /\ Phases[task.phase] = "bind" /\ task.tls = "yes"

\* --------------------------------------------------------- claims C21..C30
\* C21: until the first call on the client returns, the state is Connecting
\* with the one task spawned by the constructor, started with the Config's
\* server, jid and password; reconnect is false; nothing has been returned.
C21_NewSpawnsConnect ==
    ret = NoCall
        => /\ state = "Connecting"
           /\ spawned = 1 /\ task.id = 1 /\ task.res # "none"
           /\ task.server = config.server /\ task.jid = config.jid
           /\ task.password = config.password
           /\ ~reconnect
           /\ calls = 0 /\ reads = <<>> /\ stream = NoStream
C21_Witness ==
    /\ ret = NoCall /\ state = "Connecting"
    /\ task.id = 1 /\ task.res = "pending" /\ PhaseName = "auth"

\* C22: once the Client has been dropped in state Connecting, the connect
\* task performs no further phase.
C22_DropCancelsTask ==
    [][dropped => task' = task]_vars

\* C23: send_end changes neither the state nor the stream's unread packets;
\* with reconnect = false, after a send_end, the poll that reads the peer's
\* StreamEnd returns Disconnected(Error::Disconnected) and leaves the state
\* Disconnected, and a poll in state Disconnected returns end-of-stream, not
\* another event.
C23_GracefulClose ==
    /\ [][(SendReturns /\ ret'.op = "send_end")
            => /\ state' = state /\ reconnect' = reconnect /\ task' = task
               /\ stream'.jid = stream.jid /\ stream'.inbox = stream.inbox]_vars
    /\ [][(/\ ~reconnect
           /\ \E i \in 1..Len(stream.outbox) : stream.outbox[i] = "StreamEnd"
           /\ Yields("StreamEnd"))
            => /\ state' = "Disconnected"
               /\ ret' = Ret("poll_next", "Disconnected", "Disconnected")]_vars
    /\ [][(state = "Disconnected" /\ ~reconnect /\ PollReturns)
            => ret' = Ret("poll_next", "None", "")]_vars
C23_Witness ==
    /\ state = "Connected" /\ ~reconnect
    /\ ret = Ret("send_end", "Ok", "")
    /\ Last(stream.outbox) = "StreamEnd"
    /\ stream.inbox = <<[kind |-> "StreamEnd", val |-> ""]>>

\* C26: the stored Config never changes, and every connect task, the initial
\* one and each one spawned on reconnect, is started with its server, jid and
\* password.
C26_ConfigCloned ==
    /\ [](task.id # 0
            => /\ task.server = config.server /\ task.jid = config.jid
               /\ task.password = config.password)
    /\ [][config' = config]_vars
    /\ [][(task'.id # task.id /\ task'.id # 0)
            => /\ task'.id = spawned + 1 /\ task'.phase = 1 /\ task'.res = "pending"
               /\ task'.server = config.server /\ task'.jid = config.jid
               /\ task'.password = config.password]_vars
C26_Witness ==
    /\ state = "Connecting" /\ task.id = 2 /\ PhaseName = "auth"
    /\ task.server = "UseSrv" /\ task.jid = "user@example.org" /\ task.password = "pw1"
    /\ config = [jid |-> "user@example.org", password |-> "pw1", server |-> "UseSrv"]

\* C24: derive with a Pbkdf2 password returns Ok exactly when the stored
\* method is the provider's name, the stored salt is the salt argument and
\* the stored iteration count is the iterations argument, and then returns
\* the stored key.
C24_DeriveAcceptsMatching ==
    (pure.fn = "derive" /\ pure.done /\ pure.arg.password.kind = "Pbkdf2")
        => LET a == pure.arg
               pw == a.password
               matching == /\ pw.method = ProviderName(a.provider)
                           /\ pw.salt = a.salt
                           /\ pw.iterations = a.iterations
           IN  /\ pure.out.ok <=> matching
               /\ pure.out.ok => pure.out.val = pw.data

\* C25: with a Pbkdf2 password, derive returns IncompatibleHashingMethod
\* exactly when the stored method differs from the provider's name; otherwise
\* IncorrectSalt exactly when the stored salt differs from the salt argument;
\* otherwise IncompatibleIterationCount exactly when the iteration counts differ.
C25_DeriveErrorNames ==
    (pure.fn = "derive" /\ pure.done /\ pure.arg.password.kind = "Pbkdf2")
        => LET a == pure.arg
               pw == a.password
               Fails(name) == ~pure.out.ok /\ pure.out.err[1] = name
           IN  /\ Fails("IncompatibleHashingMethod") <=> pw.method # ProviderName(a.provider)
               /\ pw.method = ProviderName(a.provider)
                    => /\ Fails("IncorrectSalt") <=> pw.salt # a.salt
                       /\ pw.salt = a.salt
                            => (Fails("IncompatibleIterationCount")
                                    <=> pw.iterations # a.iterations)

\* C27: Anonymous::from_credentials returns Ok(Anonymous) exactly when the
\* secret is SaslSecret::None and otherwise the error "the anonymous sasl
\* mechanism requires no credentials"; the mechanism's name is "ANONYMOUS".
C27_AnonymousNoSecret ==
    /\ (pure.fn = "from_credentials" /\ pure.done)
        => /\ pure.out.ok <=> pure.arg.secret.kind = "None"
           /\ pure.out.ok => pure.out.val = "Anonymous"
           /\ ~pure.out.ok
                => pure.out.err = <<"the anonymous sasl mechanism requires no credentials">>
    /\ pure.fn = "name" => (pure.arg = "Anonymous" /\ pure.out = "ANONYMOUS")
C27_Witness ==
    /\ pure.fn = "from_credentials" /\ pure.done
    /\ pure.arg.secret = [kind |-> "Password", val |-> "pencil"]
    /\ ~pure.out.ok

\* C28: for every Presence p, Presence::try_from(Element::from(p)) succeeds
\* and gives a Presence with the type, show, statuses, priority and payloads
\* of p.
C28_PresenceRoundTrip ==
    (pure.fn = "presence_round_trip" /\ pure.done)
        => /\ pure.out.ok
           /\ pure.out.val = pure.arg

\* The children of a <presence/> that are show, status or priority elements
\* of the default namespace, and those that are not.
IsChild(elem, name) == Is(elem, name, DEFAULT_NS)
IsPayload(elem) ==
    ~IsChild(elem, "show") /\ ~IsChild(elem, "status") /\ ~IsChild(elem, "priority")
CountOf(children, name) == Len(SelectSeq(children, LAMBDA e : IsChild(e, name)))
LangOf(elem) == IF Attr(elem, "xml:lang") = <<>> THEN "" ELSE Attr(elem, "xml:lang")[1]
HasDuplicate(children) ==
    \/ CountOf(children, "show") > 1
    \/ CountOf(children, "priority") > 1
    \/ \E i, j \in 1..Len(children) :
        /\ i < j /\ IsChild(children[i], "status") /\ IsChild(children[j], "status")
        /\ LangOf(children[i]) = LangOf(children[j])
WithoutPayloads(root) ==
    [root EXCEPT !.children = SelectSeq(@, LAMBDA e : ~IsPayload(e))]
\* The payloads are kept in document order, and the children that are
\* payloads make no difference to whether the parse fails and how.
PayloadsKept ==
    /\ pure.out.ok => pure.out.val.payloads = SelectSeq(pure.arg.children, IsPayload)
    /\ pure.out.ok <=> PresenceTryFrom(WithoutPayloads(pure.arg)).ok
    /\ ~pure.out.ok => pure.out.err = PresenceTryFrom(WithoutPayloads(pure.arg)).err

\* C29 as stated: a presence with more than one show child, more than one
\* priority child or two status children of one xml:lang yields a
\* ParseError; every other child is appended to payloads in document order
\* and causes no error.
C29_DuplicatesGiveParseError ==
    (pure.fn = "presence_try_from" /\ pure.done)
        => /\ HasDuplicate(pure.arg.children)
                => (~pure.out.ok /\ pure.out.err[1] = "ParseError")
           /\ PayloadsKept

\* C29 as amended: such a presence yields an error, which is a ParseError
\* unless the text of the first priority child is not an i8, in which case it
\* may be the ParseIntError of that child; every other child is appended to
\* payloads in document order and causes no error.
C29_DuplicatesRejected ==
    (pure.fn = "presence_try_from" /\ pure.done)
        => /\ HasDuplicate(pure.arg.children)
                => /\ ~pure.out.ok
                   /\ pure.out.err[1] # "ParseError"
                        => /\ pure.out.err[1] = "ParseIntError"
                           /\ ~ParseI8(SelectSeq(pure.arg.children,
                                    LAMBDA e : IsChild(e, "priority"))[1].text).ok
           /\ PayloadsKept
C29_Witness ==
    /\ pure.fn = "presence_try_from" /\ pure.done
    /\ Len(pure.arg.children) = 3
    /\ IsPayload(pure.arg.children[1])
    /\ IsChild(pure.arg.children[2], "status") /\ IsChild(pure.arg.children[3], "status")
    /\ LangOf(pure.arg.children[2]) = "fr" /\ LangOf(pure.arg.children[3]) = "fr"
    /\ pure.out = Err(ParseError("Status element present twice for the same xml:lang."))

\* C30: Open::try_from of an <open/> element of the IBB namespace that has
\* only known attributes: a missing block-size gives the ParseError of
\* block-size whether or not sid is there; a block-size that is not a u16
\* gives a ParseIntError whether or not sid is there; with a valid block-size
\* a missing sid gives the ParseError of sid; with both, an absent stanza
\* gives Stanza::Iq and an unknown stanza value a ParseError.
C30_OpenAttributeOrder ==
    (/\ pure.fn = "open_try_from" /\ pure.done
     /\ Is(pure.arg, "open", IBB) /\ Attr(pure.arg, "coucou") = <<>>)
        => LET bs == Attr(pure.arg, "block-size")
               sid == Attr(pure.arg, "sid")
               st == Attr(pure.arg, "stanza")
               out == pure.out
           IN  IF bs = <<>>
               THEN out = Err(ParseError("Required attribute 'block-size' missing."))
               ELSE IF bs[1] \notin {"3", "128"}
               THEN ~out.ok /\ out.err = <<"ParseIntError">>
               ELSE IF sid = <<>>
               THEN out = Err(ParseError("Required attribute 'sid' missing."))
               ELSE IF st = <<>>
               THEN /\ out.ok
                    /\ out.val = <<<<"block_size", IF bs[1] = "3" THEN 3 ELSE 128>>,
                                   <<"sid", sid[1]>>, <<"stanza", "Iq">>>>
               ELSE IF st[1] \notin {"iq", "message"}
               THEN out = Err(ParseError("Unknown value for 'stanza' attribute."))
               ELSE out.ok
C30_Witness ==
    /\ pure.fn = "open_try_from" /\ pure.done
    /\ pure.arg.name = "open"
    /\ pure.arg.attrs = {<<"block-size", "-5">>}
    /\ pure.out = Err(<<"ParseIntError">>)

\* ------------------------------------------------------ event order, sink, getters
\* A step in which one of the four operations of the Sink impl returns.
SinkReturns == calls' # calls /\ ret'.op \in SinkPollOps \cup {"start_send"}
\* A step in which set_reconnect returns.
SetReconnectReturns == calls' # calls /\ ret'.op = "set_reconnect"

\* C31: every Stanza event is returned in state Connected and has an Online
\* event before it with no Disconnected event in between; and when an Online
\* event is returned, either no Online event came before it or a Disconnected
\* event has been returned since the last one.
C31_StanzaOnlyWhileOnline ==
    [][/\ Emits("Stanza") => (state = "Connected" /\ online # "")
       /\ Emits("Online") => online = ""]_vars
C31_Witness ==
    /\ ret.op = "poll_next" /\ ret.kind = "Stanza"
    /\ online # "" /\ spawned = 2

\* C32: with reconnect = true every poll_next returns Pending or an event,
\* never None and never by a panic; a poll that finds the connect attempt
\* failed returns a Disconnected event carrying that failure and spawns
\* nothing, the next attempt being left to a later poll.
C32_ReconnectNeverEnds ==
    [][(reconnect /\ PollReturns)
        => /\ ret'.kind \in {"Pending", "Online", "Stanza", "Disconnected"}
           /\ (state = "Connecting" /\ task.res \in {"err", "panicked"})
                => (ret' = Ret("poll_next", "Disconnected", task.val)
                    /\ spawned' = spawned)]_vars

\* C33: outside Connected, poll_ready, poll_flush and poll_close return Pending
\* and start_send returns Err(InvalidState); in every state the four
\* operations leave the client's state, its connect task and the reconnect
\* flag as they were.
C33_SinkOutsideConnected ==
    [][SinkReturns
        => /\ state' = state /\ task' = task /\ reconnect' = reconnect
           /\ state # "Connected"
                => ret' = IF ret'.op = "start_send"
                          THEN Ret("start_send", "Err", "InvalidState")
                          ELSE Ret(ret'.op, "Pending", "")]_vars
C33_Witness ==
    /\ state = "Invalid"
    /\ ret = Ret("poll_ready", "Pending", "")

\* C34: a poll_next in state Connected polls the sink first. When the sink
\* reports an error the client becomes Disconnected and the poll returns
\* Disconnected with the sink's error, nothing having been read from the
\* stream. When the sink is Pending or Ready the stream is read: something is
\* read whenever the stream holds something, and a Stanza with only Text
\* before it is returned by this poll.
C34_SinkPolledBeforeReading ==
    [][(state = "Connected" /\ PollReturns)
        => /\ ready' \in {"Err", "PendingOrReady"}
           /\ ready' = "Err"
                => /\ state' = "Disconnected"
                   /\ ret'.kind = "Disconnected" /\ ret'.val \in StreamErrors
                   /\ reads' = <<>>
           /\ ready' = "PendingOrReady"
                => /\ IsPrefix(reads', stream.inbox)
                   /\ stream.inbox # <<>> => reads' # <<>>
                   /\ (NonText(stream.inbox) # <<>> /\ IsStanza(Head(NonText(stream.inbox))))
                        => /\ ret' = Ret("poll_next", "Stanza", Head(NonText(stream.inbox)).val)
                           /\ state' = "Connected"]_vars
C34_Witness ==
    /\ ready = "PendingOrReady"
    /\ state = "Connected"
    /\ ret.kind = "Stanza" /\ Len(reads) = 2

C36_SetReconnectFrame ==
    [][/\ SetReconnectReturns
            => /\ state' = state /\ task' = task /\ stream' = stream
               /\ config' = config /\ spawned' = spawned /\ online' = online
               /\ ret'.kind = "none"
       /\ spawned' # spawned
            => (state = "Disconnected" /\ reconnect /\ PollStep /\ ~SetReconnectReturns)
       /\ Emits("None") => (state = "Disconnected" /\ ~reconnect)]_vars
C36_Witness ==
    /\ ret.op = "set_reconnect"
    /\ reconnect /\ state = "Connected" /\ stream.inbox # <<>>

====
